---------------------------- MODULE Spec2Model ----------------------------
(***************************************************************************)
(* The multi-phase recommendation pipeline of                              *)
(* src/agents/enhanced_entertainment_discovery.py: CoordinatorAgent.execute *)
(* and the eight agents it sequences.                                      *)
(*                                                                         *)
(* Conventions.                                                            *)
(*  - Candidate items are Python dicts shared by reference between the     *)
(*    lists the stages hand on.  The heap of items is the sequence `shows`;*)
(*    every list of items (all_shows, approved, ranked, ...) is a sequence *)
(*    of indices into it, so that an in-place write through one list is    *)
(*    seen through all of them, as in the code.                            *)
(*  - A dict is a record whose DOMAIN is the set of keys present.          *)
(*  - Ratings are in tenths (8.7 is 87), genre weights and mood boosts in  *)
(*    tenths (1.5 is 15), so personalized_score is in hundredths and       *)
(*    final_score in thousandths; products are exact.                      *)
(*  - random.* calls are choices from the draw sets handed to the actions; *)
(*    the draws made are kept in `rnd` so that properties can name them.   *)
(*  - Agent.log, Agent.remember and Agent.metrics touch nothing the        *)
(*    pipeline reads and are left out.                                     *)
(***************************************************************************)
EXTENDS Integers, Sequences, FiniteSets, TLC

(***************************************************************************)
(* Bounds of the model.                                                    *)
(***************************************************************************)
\* The largest number of candidates one ContentProvider response holds.
MaxShows == 2

(***************************************************************************)
(* Generic helpers: dict access, sequences.                                *)
(***************************************************************************)
\* dict.get(key, default)
Get(d, key, default) == IF key \in DOMAIN d THEN d[key] ELSE default

\* d[key] = value  (adds the key or overwrites it)
Put(d, key, value) == (key :> value) @@ d

\* d.update(other): every key of other is written into d
Update(d, other) == other @@ d

Range(s) == {s[i] : i \in 1..Len(s)}

\* [x for x in s if Keep(x)]
RECURSIVE SelectIds(_, _)
SelectIds(s, keep) ==
    IF s = <<>> THEN <<>>
    ELSE IF Head(s) \in keep THEN <<Head(s)>> \o SelectIds(Tail(s), keep)
    ELSE SelectIds(Tail(s), keep)

\* All sequences over S of length at most n
SeqsUpTo(S, n) == UNION {[1..k -> S] : k \in 0..n}

Min(a, b) == IF a <= b THEN a ELSE b
Max(a, b) == IF a >= b THEN a ELSE b

(***************************************************************************)
(* The agents (CoordinatorAgent.__init__) and the phase each one runs in.  *)
(***************************************************************************)
Agents == {"personalization", "mood", "research", "review", "trend",
           "filter", "analysis", "recommendation"}

PhaseOf == [personalization |-> 1, mood |-> 1, research |-> 2,
            review |-> 3, trend |-> 3, filter |-> 4, analysis |-> 5,
            recommendation |-> 6]

AgentName == [personalization |-> "PersonalizeBot", mood |-> "MoodBot",
              research |-> "ResearchBot", review |-> "ReviewBot",
              trend |-> "TrendBot", filter |-> "FilterBot",
              analysis |-> "AnalyzerBot", recommendation |-> "RecommendBot"]

TasksOfPhase(k) == {a \in Agents : PhaseOf[a] = k}

\* A result variable before its agent has returned.
NotYet == [status |-> "unset"]

\* No exception has reached the coordinator's await.
NoExc == [agent |-> "none", msg |-> ""]

(***************************************************************************)
(* PersonalizationAgent.execute                                            *)
(***************************************************************************)
FavoriteBoost == 15
DislikePenalty == 3
NeutralWeight == 10

\* Faulty variant: dislikes first, then favourites, so a favourite overwrites.
GenreWeightsFavoriteWins(favorite_genres, disliked_genres) ==
    [g \in Range(favorite_genres) \cup Range(disliked_genres) |->
        IF g \in Range(favorite_genres) THEN FavoriteBoost ELSE DislikePenalty]

\* genre_weights: favourites first, then dislikes, so a dislike overwrites.
GenreWeights(favorite_genres, disliked_genres) ==
    [g \in Range(favorite_genres) \cup Range(disliked_genres) |->
        IF g \in Range(disliked_genres) THEN DislikePenalty ELSE FavoriteBoost]

Preferences(profile) ==
    [genre_weights |->
        GenreWeights(Get(profile, "favorite_genres", <<"sci-fi", "drama">>),
                     Get(profile, "disliked_genres", <<"horror">>)),
     preferred_length |-> Get(profile, "preferred_length", "any"),
     preferred_rating_threshold |-> Get(profile, "min_rating", 70),
     content_freshness |-> Get(profile, "freshness", "balanced")]

(***************************************************************************)
(* MoodDetectionAgent.execute.  A query is a sequence of characters.       *)
(***************************************************************************)
UpperLetters == <<"A", "B", "C", "D", "E", "F", "G", "H", "I", "J", "K", "L",
    "M", "N", "O", "P", "Q", "R", "S", "T", "U", "V", "W", "X", "Y", "Z">>
LowerLetters == <<"a", "b", "c", "d", "e", "f", "g", "h", "i", "j", "k", "l",
    "m", "n", "o", "p", "q", "r", "s", "t", "u", "v", "w", "x", "y", "z">>

\* str.lower()
LowerChar(c) ==
    IF \E i \in 1..Len(UpperLetters) : UpperLetters[i] = c
    THEN LowerLetters[CHOOSE i \in 1..Len(UpperLetters) : UpperLetters[i] = c]
    ELSE c
Lower(s) == [i \in 1..Len(s) |-> LowerChar(s[i])]

\* kw in text
Contains(text, kw) ==
    \E i \in 1..(Len(text) - Len(kw) + 1) : SubSeq(text, i, i + Len(kw) - 1) = kw

\* mood_indicators, in the dict's insertion order
mood_indicators == <<
    [mood |-> "relaxed", keywords |-> <<
        <<"c", "h", "i", "l", "l">>,
        <<"r", "e", "l", "a", "x">>,
        <<"u", "n", "w", "i", "n", "d">>,
        <<"c", "o", "z", "y">>>>],
    [mood |-> "energetic", keywords |-> <<
        <<"e", "x", "c", "i", "t", "i", "n", "g">>,
        <<"a", "c", "t", "i", "o", "n">>,
        <<"i", "n", "t", "e", "n", "s", "e">>,
        <<"t", "h", "r", "i", "l", "l", "i", "n", "g">>>>],
    [mood |-> "thoughtful", keywords |-> <<
        <<"d", "e", "e", "p">>,
        <<"m", "e", "a", "n", "i", "n", "g", "f", "u", "l">>,
        <<"d", "r", "a", "m", "a">>,
        <<"c", "o", "m", "p", "l", "e", "x">>>>],
    [mood |-> "fun", keywords |-> <<
        <<"f", "u", "n">>,
        <<"c", "o", "m", "e", "d", "y">>,
        <<"l", "i", "g", "h", "t">>,
        <<"e", "n", "t", "e", "r", "t", "a", "i", "n", "i", "n", "g">>>>]>>

\* any(kw in query_text.lower() for kw in keywords)
MoodMatches(query_text, entry) ==
    \E k \in 1..Len(entry.keywords) : Contains(Lower(query_text), entry.keywords[k])

\* Faulty variant: the loop has no break, the last entry that matches wins.
DetectMoodLast(query_text) ==
    IF \E i \in 1..Len(mood_indicators) : MoodMatches(query_text, mood_indicators[i])
    THEN mood_indicators[CHOOSE i \in 1..Len(mood_indicators) :
            /\ MoodMatches(query_text, mood_indicators[i])
            /\ \A j \in (i + 1)..Len(mood_indicators) :
                    ~MoodMatches(query_text, mood_indicators[j])].mood
    ELSE "neutral"

\* the for loop with break: the first entry that matches, else "neutral"
DetectMood(query_text) ==
    IF \E i \in 1..Len(mood_indicators) : MoodMatches(query_text, mood_indicators[i])
    THEN mood_indicators[CHOOSE i \in 1..Len(mood_indicators) :
            /\ MoodMatches(query_text, mood_indicators[i])
            /\ \A j \in 1..(i - 1) : ~MoodMatches(query_text, mood_indicators[j])].mood
    ELSE "neutral"

MoodProfile(ctx) ==
    LET detected_mood == DetectMood(Get(ctx, "query", <<>>))
        day_of_week == Get(ctx, "day_of_week", "friday")
    IN [detected_mood |-> detected_mood,
        time_of_day |-> Get(ctx, "time_of_day", "evening"),
        day_of_week |-> day_of_week,
        suggested_length |->
            IF day_of_week \in {"friday", "saturday"} THEN "long" ELSE "medium",
        energy_level |-> IF detected_mood = "energetic" THEN "high" ELSE "moderate"]

(***************************************************************************)
(* Numbers.  Python's round() rounds half to even.                         *)
(***************************************************************************)
\* round(n / d) for d > 0
RoundHalfEven(n, d) ==
    LET q == n \div d
        r == n % d
    IN IF 2 * r < d THEN q
       ELSE IF 2 * r > d THEN q + 1
       ELSE IF q % 2 = 0 THEN q ELSE q + 1

\* Faulty variant: the value is stored as computed.
Unclamped(lo, hi, x) == x

\* max(lo, min(hi, x))
Clamp(lo, hi, x) == Max(lo, Min(hi, x))

(***************************************************************************)
(* ReviewAggregationAgent.execute, the body of its loop for one item.      *)
(* draw = [rt, mc, aud, total]: the three random.uniform jitters in        *)
(* hundredths (rt in -500..500, mc in -800..800, aud in -50..50) and the   *)
(* random.randint review count.  Percentages are kept in hundredths while  *)
(* computing and stored in tenths, trust_score is stored in tenths.        *)
(***************************************************************************)
\* 9 * variance of the three scores, in hundredths squared
Variance9(scores) ==
    3 * (scores[1] * scores[1] + scores[2] * scores[2] + scores[3] * scores[3])
    - (scores[1] + scores[2] + scores[3]) * (scores[1] + scores[2] + scores[3])

\* trust_score = max(0, min(10, 10 - variance / 20)), rounded to one decimal
TrustScore(scores) ==
    RoundHalfEven(Clamp(0, 18000000, 18000000 - Variance9(scores)), 180000)

\* Faulty variant: the consensus threshold is a variance of 5.
ReviewConsensusTight(scores) ==
    IF Variance9(scores) < 450000 THEN "strong" ELSE "mixed"

\* "strong" if variance < 50 else "mixed"; 9 * 50 in hundredths squared
ReviewConsensus(scores) ==
    IF Variance9(scores) < 4500000 THEN "strong" ELSE "mixed"

ReviewFields(item, draw) ==
    LET imdb_score == Get(item, "rating", 80)
        rt_score == imdb_score * 100 + draw.rt
        metacritic == imdb_score * 100 + draw.mc
        audience_score == imdb_score * 10 + draw.aud
        scores == <<imdb_score * 100, rt_score, metacritic>>
    IN [review_data |->
           [imdb |-> imdb_score,
            rotten_tomatoes |-> Clamp(0, 1000, RoundHalfEven(rt_score, 10)),
            metacritic |-> Clamp(0, 1000, RoundHalfEven(metacritic, 10)),
            audience_score |-> RoundHalfEven(audience_score, 10)],
        trust_score |-> TrustScore(scores),
        review_consensus |-> ReviewConsensus(scores),
        total_reviews |-> draw.total]

ReviewEnrich(item, draw) == Update(item, ReviewFields(item, draw))

(***************************************************************************)
(* TrendAnalysisAgent.execute, the body of its loop for one item.          *)
(* draw.days is (now - Jan 1 of the drawn release year) in days; scores    *)
(* are in tenths, where rounding to one decimal changes nothing because    *)
(* days is whole.  trending_rank 0 stands for None.                        *)
(***************************************************************************)
\* Faulty variant: the trend task also writes a trust_score of its own.
TrendFieldsWithTrust(item, draw) ==
    [trend_data |-> [trending_score |-> Get(item, "rating", 80) * 10],
     social_proof |-> [friends_watching |-> draw.friends],
     trust_score |-> Min(100, draw.friends * 10)]

TrendFields(item, draw) ==
    LET base_popularity == Get(item, "rating", 80) * 10
        recency_boost == Max(0, 300 - draw.days)
        trend_score == base_popularity + recency_boost
    IN [trend_data |->
           [trending_score |-> trend_score,
            social_mentions |-> draw.mentions,
            watch_velocity |-> draw.velocity,
            is_trending |-> trend_score > 850,
            trending_rank |-> IF trend_score > 850 THEN draw.rank ELSE 0],
        social_proof |->
           [friends_watching |-> draw.friends,
            award_nominations |-> draw.awards]]

TrendEnrich(item, draw) == Update(item, TrendFields(item, draw))

(***************************************************************************)
(* ContentFilterAgent.execute, the body of its loop for one item.          *)
(* draw = [content_rating, content_warnings]: the random.choice and the    *)
(* random.sample.                                                          *)
(***************************************************************************)
rating_hierarchy == <<"G", "PG", "PG-13", "TV-14", "R", "TV-MA">>

warning_labels == <<"violence", "language", "adult themes", "scary scenes", "none">>

\* list.index(x), counted from 0
Index0(s, x) == (CHOOSE i \in 1..Len(s) : s[i] = x) - 1

\* Faulty variant: the ceiling is never looked up, every level is under it.
MaxRatingLevelUnchecked(max_rating) == Len(rating_hierarchy)

\* rating_hierarchy.index(max_rating) if max_rating in rating_hierarchy else len(...)
MaxRatingLevel(max_rating) ==
    IF max_rating \in Range(rating_hierarchy)
    THEN Index0(rating_hierarchy, max_rating)
    ELSE Len(rating_hierarchy)

PassesRating(content_rating, flt) ==
    Index0(rating_hierarchy, content_rating)
        <= MaxRatingLevel(Get(flt, "max_content_rating", "TV-MA"))

PassesGenre(item, flt) == item.genre \notin Range(Get(flt, "exclude_genres", <<>>))

PassesQuality(item, flt) == Get(item, "rating", 0) >= Get(flt, "min_quality_score", 70)

PassesWarnings(content_warnings, flt) ==
    Get(flt, "content_warnings_ok", TRUE) \/ "none" \in Range(content_warnings)

\* Faulty variant: the warnings check is left out of the conjunction.
ApprovedWithoutWarnings(passes_rating, passes_genre, passes_quality, passes_warnings) ==
    passes_rating /\ passes_genre /\ passes_quality

\* all([passes_rating, passes_genre, passes_quality, passes_warnings])
Approved(passes_rating, passes_genre, passes_quality, passes_warnings) ==
    passes_rating /\ passes_genre /\ passes_quality /\ passes_warnings

FilterStatus(item, draw, flt) ==
    LET passes_rating == PassesRating(draw.content_rating, flt)
        passes_genre == PassesGenre(item, flt)
        passes_quality == PassesQuality(item, flt)
        passes_warnings == PassesWarnings(draw.content_warnings, flt)
    IN [passes_rating |-> passes_rating,
        passes_genre |-> passes_genre,
        passes_quality |-> passes_quality,
        passes_warnings |-> passes_warnings,
        approved |-> Approved(passes_rating, passes_genre,
                              passes_quality, passes_warnings)]

FilterFields(item, draw, flt) ==
    [content_rating |-> draw.content_rating,
     content_warnings |-> draw.content_warnings,
     filter_status |-> FilterStatus(item, draw, flt)]

FilterEnrich(item, draw, flt) == Update(item, FilterFields(item, draw, flt))

(***************************************************************************)
(* AnalysisAgent.execute.  research_data["data"] is an ordered dict: a     *)
(* sequence of [platform, shows] entries in insertion order, shows being   *)
(* item indices.  The coordinator always passes preferences and mood, and  *)
(* both are non-empty dicts, so both `if` blocks run and score_key is      *)
(* "final_score".                                                          *)
(***************************************************************************)
mood_boosts ==
    ("energetic" :> (("action" :> 12) @@ ("sci-fi" :> 11)))
    @@ ("relaxed" :> (("comedy" :> 12) @@ ("animation" :> 11)))
    @@ ("thoughtful" :> (("drama" :> 12) @@ ("documentary" :> 11)))

\* mood_boosts.get(detected_mood, {}).get(genre, 1.0)
MoodBoost(detected_mood, genre) ==
    Get(Get(mood_boosts, detected_mood, <<>>), genre, NeutralWeight)

\* genre_weights.get(genre, 1.0)
GenreBoost(genre_weights, genre) == Get(genre_weights, genre, NeutralWeight)

\* the nested loop that sets show["platform"] and appends to all_shows
RECURSIVE FlattenIds(_)
FlattenIds(data) ==
    IF data = <<>> THEN <<>> ELSE Head(data).shows \o FlattenIds(Tail(data))

RECURSIVE SetPlatforms(_, _)
SetPlatforms(heap, data) ==
    IF data = <<>> THEN heap
    ELSE SetPlatforms(
            [i \in DOMAIN heap |->
                IF i \in Range(Head(data).shows)
                THEN Put(heap[i], "platform", Head(data).platform)
                ELSE heap[i]],
            Tail(data))

\* Faulty variant: the genre weight is not applied.
WithPersonalizedScoreUnweighted(show, preferences) ==
    Put(show, "personalized_score", show.rating * NeutralWeight)

\* show["personalized_score"] = base_score * genre_boost
WithPersonalizedScore(show, preferences) ==
    Put(show, "personalized_score",
        show.rating * GenreBoost(Get(preferences, "genre_weights", <<>>), show.genre))

\* show["final_score"] = current_score * boost
WithFinalScore(show, mood) ==
    Put(show, "final_score",
        Get(show, "personalized_score", show.rating * 10)
            * MoodBoost(Get(mood, "detected_mood", "neutral"), show.genre))

\* `if preferences:` / `if mood:`.  An argument left at its default None is
\* the empty dict here; the dicts the two Phase 1 agents return are never empty.
Given(d) == DOMAIN d # {}

AnalysisScore(show, preferences, mood) ==
    LET personalized == IF Given(preferences)
                        THEN WithPersonalizedScore(show, preferences)
                        ELSE show
    IN IF Given(mood) THEN WithFinalScore(personalized, mood) ELSE personalized

\* score_key
ScoreKey(preferences, mood) ==
    IF Given(mood) THEN "final_score"
    ELSE IF Given(preferences) THEN "personalized_score"
    ELSE "rating"

\* Faulty variant: the sort always reads final_score, whatever was applied.
SortKeyFinalOnly(show, score_key) == Get(show, "final_score", show.rating * 100)

\* x.get(score_key, x["rating"]), in thousandths
SortKey(show, score_key) ==
    IF score_key = "final_score" THEN Get(show, "final_score", show.rating * 100)
    ELSE IF score_key = "personalized_score"
         THEN Get(show, "personalized_score", show.rating * 10) * 10
    ELSE show.rating * 100

\* Faulty variant: x goes before the elements whose key equals its own (a
\* sort that reverses the list of an ascending stable sort).
RECURSIVE InsertDescBeforeEqual(_, _, _, _)
InsertDescBeforeEqual(sorted, x, heap, score_key) ==
    IF sorted = <<>> THEN <<x>>
    ELSE IF SortKey(heap[Head(sorted)], score_key) > SortKey(heap[x], score_key)
         THEN <<Head(sorted)>> \o InsertDescBeforeEqual(Tail(sorted), x, heap, score_key)
         ELSE <<x>> \o sorted

\* sorted(..., reverse=True): descending and stable.  x goes after every
\* element whose key is at least its own.
RECURSIVE InsertDesc(_, _, _, _)
InsertDesc(sorted, x, heap, score_key) ==
    IF sorted = <<>> THEN <<x>>
    ELSE IF SortKey(heap[Head(sorted)], score_key) >= SortKey(heap[x], score_key)
         THEN <<Head(sorted)>> \o InsertDesc(Tail(sorted), x, heap, score_key)
         ELSE <<x>> \o sorted

RECURSIVE SortedDesc(_, _, _)
SortedDesc(ids, heap, score_key) ==
    IF ids = <<>> THEN <<>>
    ELSE InsertDesc(SortedDesc(SubSeq(ids, 1, Len(ids) - 1), heap, score_key),
                    ids[Len(ids)], heap, score_key)

RECURSIVE SumRatings(_, _)
SumRatings(ids, heap) ==
    IF ids = <<>> THEN 0 ELSE heap[Head(ids)].rating + SumRatings(Tail(ids), heap)

\* genres[show["genre"]] = genres.get(show["genre"], 0) + 1, and platforms alike
Distribution(ids, heap, field) ==
    [v \in {heap[ids[k]][field] : k \in 1..Len(ids)} |->
        Cardinality({k \in 1..Len(ids) : heap[ids[k]][field] = v})]

\* the heap after the three loops over all_shows
AnalysisHeap(heap, data, preferences, mood) ==
    LET ids == FlattenIds(data)
        placed == SetPlatforms(heap, data)
    IN [i \in DOMAIN heap |->
           IF i \in Range(ids) THEN AnalysisScore(placed[i], preferences, mood)
           ELSE placed[i]]

\* the analysis dict; average_rating is in hundredths.  Only defined for a
\* non-empty all_shows: the division raises ZeroDivisionError otherwise.
Analysis(heap, data, preferences, mood) ==
    LET ids == FlattenIds(data)
    IN [ranked_content |-> SortedDesc(ids, heap, ScoreKey(preferences, mood)),
        total_analyzed |-> Len(ids),
        genre_distribution |-> Distribution(ids, heap, "genre"),
        platform_distribution |-> Distribution(ids, heap, "platform"),
        average_rating |-> RoundHalfEven(SumRatings(ids, heap) * 10, Len(ids)),
        personalization_applied |-> Given(preferences),
        mood_adjusted |-> Given(mood)]

(***************************************************************************)
(* RecommendationAgent.execute.  The strings built for display (reasons,   *)
(* review_summary, social_proof, tags) are left out of a recommendation.   *)
(***************************************************************************)
TopN == 5

\* next((r for r in lookup if r["title"] == title), None); 0 stands for None
FirstMatch(lookup, heap, title) ==
    IF \E k \in 1..Len(lookup) : heap[lookup[k]].title = title
    THEN lookup[CHOOSE k \in 1..Len(lookup) :
            /\ heap[lookup[k]].title = title
            /\ \A j \in 1..(k - 1) : heap[lookup[j]].title # title]
    ELSE 0

\* item.update(matching) when a match was found
MergeItem(heap, i, lookup) ==
    LET m == FirstMatch(lookup, heap, heap[i].title)
    IN IF m = 0 THEN heap ELSE [heap EXCEPT ![i] = Update(heap[i], heap[m])]

\* for item in ranked: ...   (skipped when the lookup list is empty)
RECURSIVE MergeAll(_, _, _)
MergeAll(heap, ranked, lookup) ==
    IF ranked = <<>> \/ lookup = <<>> THEN heap
    ELSE MergeAll(MergeItem(heap, Head(ranked), lookup), Tail(ranked), lookup)

\* _calculate_confidence; score in thousandths, trust in tenths
Confidence(show) ==
    LET score == IF "final_score" \in DOMAIN show THEN show.final_score
                 ELSE Get(show, "rating", 0) * 100
        trust == Get(show, "trust_score", 70)
    IN IF score > 9000 /\ trust > 80 THEN "Very High"
       ELSE IF score > 8500 /\ trust > 70 THEN "High"
       ELSE IF score > 8000 THEN "Medium"
       ELSE "Low"

\* show.get("final_score", show.get("personalized_score", show["rating"])),
\* in thousandths
ReportedScore(show) ==
    IF "final_score" \in DOMAIN show THEN show.final_score
    ELSE IF "personalized_score" \in DOMAIN show THEN show.personalized_score * 10
    ELSE show.rating * 100

Recommendation(rank, show) ==
    [rank |-> rank,
     title |-> show.title,
     platform |-> show.platform,
     genre |-> show.genre,
     rating |-> show.rating,
     final_score |-> ReportedScore(show),
     confidence |-> Confidence(show)]

\* enumerate(ranked[:5], 1)
Recommendations(ranked, heap) ==
    [k \in 1..Min(TopN, Len(ranked)) |-> Recommendation(k, heap[ranked[k]])]

RecommendationData(analysis, recommendations) ==
    [recommendations |-> recommendations,
     insights |->
        [total_options |-> Get(analysis, "total_analyzed", 0),
         avg_quality |-> Get(analysis, "average_rating", 0),
         popular_genres |-> Get(analysis, "genre_distribution", <<>>),
         personalized |-> Get(analysis, "personalization_applied", FALSE),
         mood_aware |-> Get(analysis, "mood_adjusted", FALSE)]]

(***************************************************************************)
(* The state of one run of CoordinatorAgent.execute.                       *)
(***************************************************************************)
VARIABLES
    user_query,             \* execute's arguments
    user_profile,
    context,
    filters,
    pc,                     \* where the coordinator is: "init", "phase1" ..
                            \* "phase6" (awaiting that phase), "done", "failed",
                            \* "raised" (an exception left execute)
    task,                   \* per agent: "pending", "running" (started and
                            \* suspended in its sleep), "done", "failed",
                            \* "cancelled"
    exc,                    \* the exception delivered to the coordinator's await
    shows,                  \* the heap of candidate dicts
    research_result,        \* the agents' return values
    personalization_result,
    mood_result,
    all_shows,              \* the coordinator's flattened list (item indices)
    review_result,
    trend_result,
    filter_result,
    analysis_input,         \* the dict the coordinator builds for Phase 5
    analysis_result,
    recommendation_result,
    rnd,                    \* the random draws made so far, per stage
    result                  \* what execute returned

vars == <<user_query, user_profile, context, filters, pc, task, exc, shows,
          research_result, personalization_result, mood_result, all_shows,
          review_result, trend_result, filter_result, analysis_input,
          analysis_result, recommendation_result, rnd, result>>

inputs == <<user_query, user_profile, context, filters>>

Success(agent, data) ==
    [status |-> "success", data |-> data, agent |-> AgentName[agent]]

Started(agent) == [task EXCEPT ![agent] = "running"]
Returned(agent) == [task EXCEPT ![agent] = "done"]

\* the phase the coordinator is awaiting, 0 when it awaits none
AwaitedPhase ==
    CASE pc = "phase1" -> 1 [] pc = "phase2" -> 2 [] pc = "phase3" -> 3
      [] pc = "phase4" -> 4 [] pc = "phase5" -> 5 [] pc = "phase6" -> 6
      [] OTHER -> 0

\* Faulty variant: the await returns as soon as one awaited task has returned.
PhaseCompleteFirst(k) ==
    /\ AwaitedPhase = k
    /\ exc = NoExc
    /\ \E a \in TasksOfPhase(k) : task[a] = "done"

\* Faulty variant: raised exceptions are collected as values
\* (return_exceptions=True), the await returns once every task has ended.
PhaseCompleteCollecting(k) ==
    /\ AwaitedPhase = k
    /\ \A a \in TasksOfPhase(k) : task[a] \in {"done", "failed"}

\* asyncio.gather / await returns normally: every awaited task has returned
PhaseComplete(k) ==
    /\ AwaitedPhase = k
    /\ exc = NoExc
    /\ \A a \in TasksOfPhase(k) : task[a] = "done"

\* An exception raised by an agent reaches the coordinator if it still awaits
\* that agent's phase and no earlier exception has been delivered (gather
\* delivers the first one).
Delivered(agent, msg) ==
    IF AwaitedPhase = PhaseOf[agent] /\ exc = NoExc
    THEN [agent |-> agent, msg |-> msg]
    ELSE exc

(***************************************************************************)
(* The states execute may be called in.                                    *)
(***************************************************************************)
InitWith(Profiles, Contexts, Filters) ==
    /\ user_profile \in Profiles
    /\ context \in Contexts
    /\ user_query = Get(context, "query", <<>>)
    /\ filters \in Filters
    /\ pc = "init"
    /\ task = [a \in Agents |-> "pending"]
    /\ exc = NoExc
    /\ shows = <<>>
    /\ research_result = NotYet
    /\ personalization_result = NotYet
    /\ mood_result = NotYet
    /\ all_shows = <<>>
    /\ review_result = NotYet
    /\ trend_result = NotYet
    /\ filter_result = NotYet
    /\ analysis_input = <<>>
    /\ analysis_result = NotYet
    /\ recommendation_result = NotYet
    /\ rnd = [review |-> <<>>, trend |-> <<>>, filter |-> <<>>]
    /\ result = NotYet

(***************************************************************************)
(* Phase 1: user analysis, two tasks gathered.                             *)
(***************************************************************************)
\* A code point print cannot write to a UTF-8 console: a lone surrogate, as
\* json.loads("\"\\ud83d\"") yields.
LoneSurrogate == "U+D83D"

\* print(message) succeeds
Encodable(message) == \A k \in 1..Len(message) : message[k] # LoneSurrogate

\* The four log calls ahead of the try block, the third of which prints the
\* query, then the first statements inside it.
StartPhase1 ==
    /\ pc = "init"
    /\ Encodable(user_query)
    /\ pc' = "phase1"
    /\ task' = [task EXCEPT !.personalization = "running", !.mood = "running"]
    /\ UNCHANGED <<inputs, exc, shows, research_result, personalization_result,
                   mood_result, all_shows, review_result, trend_result,
                   filter_result, analysis_input, analysis_result,
                   recommendation_result, rnd, result>>

\* self.log(f"Query: '{user_query}'") raises UnicodeEncodeError.  The call is
\* ahead of the try block: the exception leaves execute, no result is returned.
HeaderLogRaises ==
    /\ pc = "init"
    /\ ~Encodable(user_query)
    /\ pc' = "raised"
    /\ UNCHANGED <<inputs, task, exc, shows, research_result,
                   personalization_result, mood_result, all_shows,
                   review_result, trend_result, filter_result, analysis_input,
                   analysis_result, recommendation_result, rnd, result>>

PersonalizationExecute ==
    /\ task.personalization = "running"
    /\ task' = Returned("personalization")
    /\ personalization_result' = Success("personalization", Preferences(user_profile))
    /\ UNCHANGED <<inputs, pc, exc, shows, research_result, mood_result,
                   all_shows, review_result, trend_result, filter_result,
                   analysis_input, analysis_result, recommendation_result,
                   rnd, result>>

MoodExecute ==
    /\ task.mood = "running"
    /\ task' = Returned("mood")
    /\ mood_result' = Success("mood", MoodProfile(context))
    /\ UNCHANGED <<inputs, pc, exc, shows, research_result,
                   personalization_result, all_shows, review_result,
                   trend_result, filter_result, analysis_input,
                   analysis_result, recommendation_result, rnd, result>>

(***************************************************************************)
(* Phase 2: content research.  ResearchAgent.execute stands for the        *)
(* ContentProvider: it returns one of Catalogs, an ordered dict from       *)
(* platform to a list of fresh {title, genre, rating} dicts.               *)
(***************************************************************************)
StartPhase2 ==
    /\ PhaseComplete(1)
    /\ pc' = "phase2"
    /\ task' = Started("research")
    /\ UNCHANGED <<inputs, exc, shows, research_result, personalization_result,
                   mood_result, all_shows, review_result, trend_result,
                   filter_result, analysis_input, analysis_result,
                   recommendation_result, rnd, result>>

\* the heap holding a catalog's dicts, platform by platform
RECURSIVE CatalogHeap(_)
CatalogHeap(catalog) ==
    IF catalog = <<>> THEN <<>>
    ELSE Head(catalog).shows \o CatalogHeap(Tail(catalog))

\* the catalog with every dict replaced by its index in the heap
CatalogRefs(catalog) ==
    [k \in 1..Len(catalog) |->
        [platform |-> catalog[k].platform,
         shows |-> [j \in 1..Len(catalog[k].shows) |->
                      Len(CatalogHeap(SubSeq(catalog, 1, k - 1))) + j]]]

ResearchExecute(Catalogs) ==
    /\ task.research = "running"
    /\ \E catalog \in Catalogs :
        /\ shows' = CatalogHeap(catalog)
        /\ research_result' = Success("research", CatalogRefs(catalog))
    /\ task' = Returned("research")
    /\ UNCHANGED <<inputs, pc, exc, personalization_result, mood_result,
                   all_shows, review_result, trend_result, filter_result,
                   analysis_input, analysis_result, recommendation_result,
                   rnd, result>>

(***************************************************************************)
(* Phase 3: enrichment.  The coordinator flattens research_data, writing   *)
(* each show's platform, and gathers the review and the trend task over    *)
(* the same list.  Each task's loop has no await in it: it runs as one     *)
(* step once the task's sleep is over.                                     *)
(***************************************************************************)
StartPhase3 ==
    /\ PhaseComplete(2)
    /\ pc' = "phase3"
    /\ shows' = SetPlatforms(shows, research_result.data)
    /\ all_shows' = FlattenIds(research_result.data)
    /\ task' = [task EXCEPT !.review = "running", !.trend = "running"]
    /\ UNCHANGED <<inputs, exc, research_result, personalization_result,
                   mood_result, review_result, trend_result, filter_result,
                   analysis_input, analysis_result, recommendation_result,
                   rnd, result>>

\* the position of item i in content_list
PositionOf(content_list, i) == CHOOSE k \in 1..Len(content_list) : content_list[k] = i

\* Faulty variant: the review task enriches copies of the items it was given.
ReviewAllOnCopies(heap, content_list, draws) == heap

\* the heap after ReviewAggregationAgent's `for item in content_list`, with
\* one draw per position
ReviewAll(heap, content_list, draws) ==
    [i \in DOMAIN heap |->
        IF i \in Range(content_list)
        THEN ReviewEnrich(heap[i], draws[PositionOf(content_list, i)])
        ELSE heap[i]]

\* the heap after TrendAnalysisAgent's `for item in content_list`
TrendAll(heap, content_list, draws) ==
    [i \in DOMAIN heap |->
        IF i \in Range(content_list)
        THEN TrendEnrich(heap[i], draws[PositionOf(content_list, i)])
        ELSE heap[i]]

\* Faulty variant: the loop starts at the second item of content_list.
EnrichedContentSkippingFirst(content_list) ==
    IF content_list = <<>> THEN <<>> ELSE Tail(content_list)

\* enriched_content = []; for item in content_list: ... enriched_content.append(item)
EnrichedContent(content_list) ==
    [k \in 1..Len(content_list) |-> content_list[k]]

ReviewExecute(Draws) ==
    /\ task.review = "running"
    /\ \E draws \in [1..Len(all_shows) -> Draws] :
        /\ shows' = ReviewAll(shows, all_shows, draws)
        /\ rnd' = [rnd EXCEPT !.review = draws]
    /\ review_result' = Success("review", EnrichedContent(all_shows))
    /\ task' = Returned("review")
    /\ UNCHANGED <<inputs, pc, exc, research_result, personalization_result,
                   mood_result, all_shows, trend_result, filter_result,
                   analysis_input, analysis_result, recommendation_result,
                   result>>

TrendExecute(Draws) ==
    /\ task.trend = "running"
    /\ \E draws \in [1..Len(all_shows) -> Draws] :
        /\ shows' = TrendAll(shows, all_shows, draws)
        /\ rnd' = [rnd EXCEPT !.trend = draws]
    /\ trend_result' = Success("trend", all_shows)
    /\ task' = Returned("trend")
    /\ UNCHANGED <<inputs, pc, exc, research_result, personalization_result,
                   mood_result, all_shows, review_result, filter_result,
                   analysis_input, analysis_result, recommendation_result,
                   result>>

(***************************************************************************)
(* Phase 4: filtering, over the trend task's list.                         *)
(***************************************************************************)
StartPhase4 ==
    /\ PhaseComplete(3)
    /\ pc' = "phase4"
    /\ task' = Started("filter")
    /\ UNCHANGED <<inputs, exc, shows, research_result, personalization_result,
                   mood_result, all_shows, review_result, trend_result,
                   filter_result, analysis_input, analysis_result,
                   recommendation_result, rnd, result>>

\* the heap after ContentFilterAgent's `for item in content_list`
FilterAll(heap, content_list, draws, flt) ==
    [i \in DOMAIN heap |->
        IF i \in Range(content_list)
        THEN FilterEnrich(heap[i], draws[PositionOf(content_list, i)], flt)
        ELSE heap[i]]

\* Faulty variant: every checked item is appended to filtered_content.
ApprovedIdsUnchecked(heap, content_list) == content_list

\* filtered_content / filtered_out: the items appended on each branch
ApprovedIds(heap, content_list) ==
    SelectIds(content_list, {i \in DOMAIN heap : heap[i].filter_status.approved})

\* Faulty variant: only the items failing the quality check are appended to
\* filtered_out.
RejectedIdsQualityOnly(heap, content_list) ==
    SelectIds(content_list, {i \in DOMAIN heap : ~heap[i].filter_status.passes_quality})

RejectedIds(heap, content_list) ==
    SelectIds(content_list, {i \in DOMAIN heap : ~heap[i].filter_status.approved})

FilterData(heap, content_list) ==
    [approved |-> ApprovedIds(heap, content_list),
     filtered_out |-> RejectedIds(heap, content_list),
     filter_stats |->
        [total_checked |-> Len(content_list),
         approved |-> Len(ApprovedIds(heap, content_list)),
         filtered |-> Len(RejectedIds(heap, content_list))]]

FilterExecute(Draws) ==
    /\ task.filter = "running"
    /\ \E draws \in [1..Len(trend_result.data) -> Draws] :
        /\ shows' = FilterAll(shows, trend_result.data, draws, filters)
        /\ rnd' = [rnd EXCEPT !.filter = draws]
    /\ filter_result' = Success("filter", FilterData(shows', trend_result.data))
    /\ task' = Returned("filter")
    /\ UNCHANGED <<inputs, pc, exc, research_result, personalization_result,
                   mood_result, all_shows, review_result, trend_result,
                   analysis_input, analysis_result, recommendation_result,
                   result>>

(***************************************************************************)
(* Phase 5: analysis.  The coordinator regroups the approved items by      *)
(* platform, iterating a set of platform names: a set of strings has no    *)
(* fixed iteration order, so the order of the dict's keys is any           *)
(* permutation of them.                                                    *)
(***************************************************************************)
\* the orders in which a set can be iterated
Orders(S) == {s \in [1..Cardinality(S) -> S] : Range(s) = S}

\* {p: [s for s in approved if s["platform"] == p] for p in set(...)}
GroupByPlatform(heap, approved, order) ==
    [k \in 1..Len(order) |->
        [platform |-> order[k],
         shows |-> SelectIds(approved,
                             {i \in DOMAIN heap : heap[i].platform = order[k]})]]

StartPhase5 ==
    /\ PhaseComplete(4)
    /\ pc' = "phase5"
    /\ \E order \in Orders({shows[i].platform :
                                i \in Range(filter_result.data.approved)}) :
        analysis_input' =
            GroupByPlatform(shows, filter_result.data.approved, order)
    /\ task' = Started("analysis")
    /\ UNCHANGED <<inputs, exc, shows, research_result, personalization_result,
                   mood_result, all_shows, review_result, trend_result,
                   filter_result, analysis_result, recommendation_result,
                   rnd, result>>

\* sum(...) / len(all_shows) with an empty all_shows raises ZeroDivisionError
\* after the (empty) loops; otherwise the agent returns the analysis.
AnalysisExecute ==
    /\ task.analysis = "running"
    /\ IF FlattenIds(analysis_input) = <<>>
       THEN /\ task' = [task EXCEPT !.analysis = "failed"]
            /\ exc' = Delivered("analysis", "division by zero")
            /\ UNCHANGED <<shows, analysis_result>>
       ELSE /\ shows' = AnalysisHeap(shows, analysis_input,
                                     personalization_result.data, mood_result.data)
            /\ analysis_result' = Success("analysis",
                        Analysis(shows', analysis_input,
                                 personalization_result.data, mood_result.data))
            /\ task' = Returned("analysis")
            /\ UNCHANGED exc
    /\ UNCHANGED <<inputs, pc, research_result, personalization_result,
                   mood_result, all_shows, review_result, trend_result,
                   filter_result, analysis_input, recommendation_result,
                   rnd, result>>

(***************************************************************************)
(* Phase 6: recommendations.                                               *)
(***************************************************************************)
StartPhase6 ==
    /\ PhaseComplete(5)
    /\ pc' = "phase6"
    /\ task' = Started("recommendation")
    /\ UNCHANGED <<inputs, exc, shows, research_result, personalization_result,
                   mood_result, all_shows, review_result, trend_result,
                   filter_result, analysis_input, analysis_result,
                   recommendation_result, rnd, result>>

\* the heap after the two merge loops
MergedHeap(heap, ranked, review_data, trend_data) ==
    MergeAll(MergeAll(heap, ranked, review_data), ranked, trend_data)

RecommendationExecute ==
    /\ task.recommendation = "running"
    /\ LET data == Get(analysis_result, "data", <<>>)
           ranked == Get(data, "ranked_content", <<>>)
       IN /\ shows' = MergedHeap(shows, ranked, review_result.data, trend_result.data)
          /\ recommendation_result' =
                Success("recommendation",
                        RecommendationData(data, Recommendations(ranked, shows')))
    /\ task' = Returned("recommendation")
    /\ UNCHANGED <<inputs, pc, exc, research_result, personalization_result,
                   mood_result, all_shows, review_result, trend_result,
                   filter_result, analysis_input, analysis_result, rnd, result>>

\* the success return of execute
WorkflowResult ==
    [status |-> "success",
     query |-> user_query,
     results |-> recommendation_result.data,
     workflow_stats |->
        [agents_involved |-> Cardinality(Agents),
         total_processed |-> filter_result.data.filter_stats.total_checked,
         approved |-> filter_result.data.filter_stats.approved,
         filtered |-> filter_result.data.filter_stats.filtered,
         personalized |-> TRUE,
         mood_aware |-> TRUE,
         safety_checked |-> TRUE]]

Finish ==
    /\ PhaseComplete(6)
    /\ pc' = "done"
    /\ result' = WorkflowResult
    /\ UNCHANGED <<inputs, task, exc, shows, research_result,
                   personalization_result, mood_result, all_shows,
                   review_result, trend_result, filter_result, analysis_input,
                   analysis_result, recommendation_result, rnd>>

(***************************************************************************)
(* Failure.  Any agent's execute may raise while it runs (a malformed      *)
(* input such as a history entry without "title", a rating that is not a   *)
(* number, an item without "genre"; a log line the console cannot encode). *)
(* The exception reaches the await of the coordinator, whose except clause *)
(* returns the error dict.  A task gathered with the one that raised is    *)
(* not cancelled by gather: it runs on, and is cancelled only if the event *)
(* loop is closed (asyncio.run) before it finishes.                        *)
(***************************************************************************)
ErrorMessages == {"provider error"}

Raise(agent) ==
    /\ task[agent] = "running"
    /\ \E msg \in ErrorMessages : exc' = Delivered(agent, msg)
    /\ task' = [task EXCEPT ![agent] = "failed"]
    /\ UNCHANGED <<inputs, pc, shows, research_result, personalization_result,
                   mood_result, all_shows, review_result, trend_result,
                   filter_result, analysis_input, analysis_result,
                   recommendation_result, rnd, result>>

\* Faulty variant: the error dict carries what the run had produced so far.
ErrorResultPartial(e) ==
    [status |-> "error", error |-> e.msg, results |-> recommendation_result]

\* return {"status": "error", "error": str(e)}
ErrorResult(e) == [status |-> "error", error |-> e.msg]

HandleException ==
    /\ AwaitedPhase # 0
    /\ exc # NoExc
    /\ pc' = "failed"
    /\ result' = ErrorResult(exc)
    /\ UNCHANGED <<inputs, task, exc, shows, research_result,
                   personalization_result, mood_result, all_shows,
                   review_result, trend_result, filter_result, analysis_input,
                   analysis_result, recommendation_result, rnd>>

Cancel(agent) ==
    /\ pc = "failed"
    /\ task[agent] = "running"
    /\ task' = [task EXCEPT ![agent] = "cancelled"]
    /\ UNCHANGED <<inputs, pc, exc, shows, research_result,
                   personalization_result, mood_result, all_shows,
                   review_result, trend_result, filter_result, analysis_input,
                   analysis_result, recommendation_result, rnd, result>>

(***************************************************************************)
(* The next-state relation, over the provider's catalogs and the draw sets *)
(* of the three stages that call random.                                   *)
(***************************************************************************)
NextWith(Catalogs, ReviewDraws, TrendDraws, FilterDraws) ==
    \/ StartPhase1
    \/ PersonalizationExecute
    \/ MoodExecute
    \/ StartPhase2
    \/ ResearchExecute(Catalogs)
    \/ StartPhase3
    \/ ReviewExecute(ReviewDraws)
    \/ TrendExecute(TrendDraws)
    \/ StartPhase4
    \/ FilterExecute(FilterDraws)
    \/ StartPhase5
    \/ AnalysisExecute
    \/ StartPhase6
    \/ RecommendationExecute
    \/ Finish
    \/ \E agent \in Agents : Raise(agent)
    \/ HandleException
    \/ \E agent \in Agents : Cancel(agent)

(***************************************************************************)
(* The inputs of the checked runs.                                         *)
(***************************************************************************)
\* what a provider may return for one title: two platforms carry a title
\* "Alpha" of different genres, two candidates have the same rating
CandidateSeeds ==
    {[title |-> "Alpha", genre |-> "horror", rating |-> 95],
     [title |-> "Alpha", genre |-> "drama", rating |-> 80],
     [title |-> "Beta", genre |-> "sci-fi", rating |-> 80],
     [title |-> "Gamma", genre |-> "horror", rating |-> 60]}

PlatformNames == <<"netflix", "hbo_max">>

\* every response with at most n candidates over the two platforms
CatalogsUpTo(Seeds, n) ==
    {<<[platform |-> PlatformNames[1], shows |-> a],
       [platform |-> PlatformNames[2], shows |-> b]>> :
        <<a, b>> \in {ab \in SeqsUpTo(Seeds, n) \X SeqsUpTo(Seeds, n) :
                        Len(ab[1]) + Len(ab[2]) <= n}}

\* main()'s profile, and one whose favourites and dislikes overlap
DemoProfile ==
    [favorite_genres |-> <<"sci-fi", "drama">>, disliked_genres |-> <<"horror">>,
     min_rating |-> 80, preferred_length |-> "any", freshness |-> "balanced"]

Profiles ==
    {DemoProfile,
     [favorite_genres |-> <<"sci-fi">>, disliked_genres |-> <<>>, min_rating |-> 80],
     [favorite_genres |-> <<"sci-fi", "drama">>,
      disliked_genres |-> <<"drama", "horror">>]}

DemoContext ==
    [query |-> <<"E", "x", "c", "i", "t", "i", "n", "g">>,
     time_of_day |-> "evening", day_of_week |-> "friday"]

Contexts == {DemoContext, [query |-> <<"n", "e", "w", "s">>]}

\* filter criteria with a PG-13 ceiling: horror excluded or not, content
\* warnings acceptable or not
FilterChoices ==
    {[max_content_rating |-> "PG-13", exclude_genres |-> x,
      min_quality_score |-> 70, content_warnings_ok |-> w] :
        x \in {<<>>, <<"horror">>}, w \in BOOLEAN}

\* main()'s filters
DemoFilters ==
    [max_content_rating |-> "TV-MA", exclude_genres |-> <<"horror">>,
     min_quality_score |-> 80, content_warnings_ok |-> TRUE]

\* no jitter, and jitter near the ends of the three uniform ranges (off the
\* halves, where the binary representation decides how round() falls)
CalmReview == [rt |-> 0, mc |-> 0, aud |-> 0, total |-> 1000]
WideReview == [rt |-> 452, mc |-> -793, aud |-> -43, total |-> 50000]

\* an old release and a recent one
OldRelease ==
    [days |-> 400, mentions |-> 1000, velocity |-> "stable", rank |-> 7,
     friends |-> 0, awards |-> 0]
NewRelease ==
    [days |-> 90, mentions |-> 100000, velocity |-> "rising", rank |-> 1,
     friends |-> 6, awards |-> 2]

\* a rating under and one over the PG-13 ceiling; no warnings drawn, and a
\* sample holding "none"
FilterDraws ==
    {[content_rating |-> r, content_warnings |-> w] :
        r \in {"PG", "R"}, w \in {<<>>, <<"violence", "none">>}}

\* the responses the provider can give
CandidateCatalogs == CatalogsUpTo(CandidateSeeds, MaxShows)

\* the draw sets the specifications below hand to the three random stages
OnlyCalmReview == {CalmReview}
OnlyWideReview == {WideReview}
CalmAndWideReview == {CalmReview, WideReview}
OnlyOldRelease == {OldRelease}
OnlyNewRelease == {NewRelease}
OldAndNewRelease == {OldRelease, NewRelease}
PlainFilterDraws == {[content_rating |-> "PG", content_warnings |-> <<"none">>]}

\* the arguments execute is called with
OnlyDemoProfile == {DemoProfile}
OnlyDemoContext == {DemoContext}
OnlyDemoFilters == {DemoFilters}

Init == InitWith(OnlyDemoProfile, OnlyDemoContext, FilterChoices)

\* main()'s inputs, every combination of review and trend draws, and one
\* filter draw
InitEnrich == InitWith(OnlyDemoProfile, OnlyDemoContext, OnlyDemoFilters)

NextEnrich ==
    NextWith(CandidateCatalogs, CalmAndWideReview, OldAndNewRelease,
             PlainFilterDraws)

SpecEnrich == InitEnrich /\ [][NextEnrich]_vars

Next == NextWith(CandidateCatalogs, OnlyWideReview, OnlyNewRelease, FilterDraws)

Spec == Init /\ [][Next]_vars

(***************************************************************************)
(* Properties.                                                             *)
(***************************************************************************)
Returned_ == pc \in {"done", "failed"}

Recs == result.results.recommendations

\* C1: no task of a phase has started unless every task of the preceding
\* phase has completed (research after personalization and mood, review and
\* trend after research, filter after review and trend, analysis after
\* filter, recommendation after analysis).
C1_PhaseBarrier ==
    \A a \in Agents :
        task[a] # "pending" =>
            \A b \in Agents : PhaseOf[b] = PhaseOf[a] - 1 => task[b] = "done"

\* the last phase's task runs, so every barrier has been passed
C1_Witness == task.recommendation = "running" /\ Len(all_shows) = 2

\* C2: every item handed to the AnalysisAgent in Phase 5 has a verdict with
\* approved = TRUE, and no item of filtered_out is handed over or ranked.
C2_OnlyApprovedRanked ==
    task.analysis # "pending" =>
        /\ \A i \in Range(FlattenIds(analysis_input)) :
            /\ i \notin Range(filter_result.data.filtered_out)
            /\ pc = "phase5" => shows[i].filter_status.approved
        /\ analysis_result # NotYet =>
            \A i \in Range(analysis_result.data.ranked_content) :
                i \notin Range(filter_result.data.filtered_out)

\* one item was rejected and one approved item was ranked
C2_Witness ==
    /\ analysis_result # NotYet
    /\ Len(analysis_result.data.ranked_content) = 1
    /\ Len(filter_result.data.filtered_out) = 1

\* C3: with genre "horror" excluded, a horror candidate of base rating 9.5 is
\* in filtered_out and no recommendation of a returned result shows it.
C3_ExcludedHorrorNeverRecommended ==
    "horror" \in Range(filters.exclude_genres) =>
        /\ task.filter = "done" =>
            \A i \in DOMAIN shows :
                (shows[i].genre = "horror" /\ shows[i].rating = 95)
                    => i \in Range(filter_result.data.filtered_out)
        /\ pc = "done" =>
            \A k \in DOMAIN Recs : ~(Recs[k].genre = "horror" /\ Recs[k].rating = 95)

\* C4: once an agent's exception has reached the coordinator, what execute
\* returns is the error dict, which holds a status and a message and no
\* recommendation list.
C4_ErrorResultOnly ==
    (exc # NoExc /\ Returned_) =>
        /\ pc = "failed"
        /\ result.status = "error"
        /\ DOMAIN result = {"status", "error"}

\* the last stage raised after the ranking had been produced
C4_Witness ==
    /\ pc = "failed"
    /\ task.recommendation = "failed"
    /\ Len(analysis_result.data.ranked_content) = 2

\* C5: once a task has failed, no task of a later phase is started, and the
\* returned result carries the error message alone, whatever a task gathered
\* with the failed one has computed.
C5_NoLaterPhaseAfterFailure ==
    \A a \in Agents :
        task[a] = "failed" =>
            /\ \A b \in Agents : PhaseOf[b] > PhaseOf[a] => task[b] = "pending"
            /\ Returned_ =>
                \E msg \in ErrorMessages \cup {"division by zero"} :
                    result = [status |-> "error", error |-> msg]

\* the review task raised, the trend task ran to its end and enriched the items
C5_Witness ==
    /\ pc = "failed"
    /\ task.review = "failed"
    /\ task.trend = "done"
    /\ Len(all_shows) = 2
    /\ \A i \in DOMAIN shows : "trend_data" \in DOMAIN shows[i]

\* the run ended without any agent raising one of ErrorMessages
EndedUnprovoked == Returned_ /\ exc.msg \notin ErrorMessages

\* C6: a provider response without candidates ends in a success result with
\* no recommendation and statistics that are all zero.
C6_EmptyCatalogSucceeds ==
    (EndedUnprovoked /\ shows = <<>>) =>
        /\ result.status = "success"
        /\ Recs = <<>>
        /\ result.workflow_stats.total_processed = 0
        /\ result.workflow_stats.approved = 0
        /\ result.workflow_stats.filtered = 0
        /\ result.results.insights.avg_quality = 0

\* C7: the result holds min(5, approved_count) recommendations, for every
\* approved_count >= 0.
C7_RecommendationCount ==
    EndedUnprovoked =>
        /\ result.status = "success"
        /\ Len(Recs) = Min(TopN, filter_result.data.filter_stats.approved)

ReviewKeys == {"review_data", "trust_score", "review_consensus", "total_reviews"}
TrendKeys == {"trend_data", "social_proof"}

\* the keys of d in K, with their values
Restrict(d, K) == [f \in DOMAIN d \cap K |-> d[f]]

\* C8: the review and the trend task write disjoint keys, and at the Phase 3
\* barrier every item holds, whichever task ran first, the review fields of
\* its review draw and the trend fields of its trend draw.
C8_EnrichmentOrderIndependent ==
    (pc = "phase3" /\ task.review = "done" /\ task.trend = "done") =>
        \A k \in 1..Len(all_shows) :
            LET item == shows[all_shows[k]]
                review == ReviewFields(item, rnd.review[k])
                trend == TrendFields(item, rnd.trend[k])
            IN /\ DOMAIN review = ReviewKeys
               /\ DOMAIN trend = TrendKeys
               /\ Restrict(item, ReviewKeys) = review
               /\ Restrict(item, TrendKeys) = trend

\* two items at the barrier, drawn differently by both tasks
C8_Witness ==
    /\ pc = "phase3" /\ task.review = "done" /\ task.trend = "done"
    /\ Len(all_shows) = 2
    /\ rnd.review[1] # rnd.review[2]
    /\ rnd.trend[1] # rnd.trend[2]

\* C9: no step removes a key of a candidate item or changes its value.
C9_AppendOnly ==
    [][\A i \in DOMAIN shows :
          /\ i \in DOMAIN shows'
          /\ \A f \in DOMAIN shows[i] :
                f \in DOMAIN shows'[i] /\ shows'[i][f] = shows[i][f]]_vars

\* C10: when the filter returns, every checked item's approved is the
\* conjunction of its four sub-checks, each sub-check is the one computed
\* from the item, its draw and the criteria, and the item is in the approved
\* list iff approved is TRUE (and in filtered_out otherwise).
C10_ApprovedIsConjunction ==
    (pc = "phase4" /\ task.filter = "done") =>
        \A k \in 1..Len(trend_result.data) :
            LET i == trend_result.data[k]
                verdict == shows[i].filter_status
            IN /\ verdict.approved =
                    (verdict.passes_rating /\ verdict.passes_genre
                     /\ verdict.passes_quality /\ verdict.passes_warnings)
               /\ verdict.passes_rating = PassesRating(rnd.filter[k].content_rating, filters)
               /\ verdict.passes_genre = PassesGenre(shows[i], filters)
               /\ verdict.passes_quality = PassesQuality(shows[i], filters)
               /\ verdict.passes_warnings =
                    PassesWarnings(rnd.filter[k].content_warnings, filters)
               /\ (i \in Range(filter_result.data.approved)) = verdict.approved
               /\ (i \in Range(filter_result.data.filtered_out)) = ~verdict.approved

\* one item fails the warnings check alone and the other one passes all four
C10_Witness ==
    /\ pc = "phase4" /\ task.filter = "done"
    /\ Len(all_shows) = 2
    /\ shows[1].filter_status =
          [passes_rating |-> TRUE, passes_genre |-> TRUE, passes_quality |-> TRUE,
           passes_warnings |-> FALSE, approved |-> FALSE]
    /\ shows[2].filter_status.approved
    /\ filter_result.data.approved = <<2>>

\* C11: the filter partitions its input: the approved and the filtered_out
\* list hold every input item exactly once between them and nothing else,
\* total_checked is the number of input items and equals approved + filtered,
\* and a successful run reports the same three counts and 8 agents.
C11_FilterPartitions ==
    task.filter = "done" =>
        LET data == filter_result.data
            input == trend_result.data
            stats == data.filter_stats
        IN /\ Range(data.approved) \cap Range(data.filtered_out) = {}
           /\ Range(data.approved) \cup Range(data.filtered_out) = Range(input)
           /\ Len(data.approved) + Len(data.filtered_out) = Len(input)
           /\ stats.total_checked = Len(input)
           /\ stats.approved = Len(data.approved)
           /\ stats.filtered = Len(data.filtered_out)
           /\ stats.total_checked = stats.approved + stats.filtered
           /\ pc = "done" =>
                /\ result.workflow_stats.total_processed = Len(input)
                /\ result.workflow_stats.approved = Len(data.approved)
                /\ result.workflow_stats.filtered = Len(data.filtered_out)
                /\ result.workflow_stats.agents_involved = 8

\* a successful run in which one item was approved and one filtered out
C11_Witness ==
    /\ pc = "done"
    /\ result.status = "success"
    /\ result.workflow_stats.approved = 1
    /\ result.workflow_stats.filtered = 1

\* C12: the review and the trend task each return the candidates they were
\* given, in the same order and count, which are the candidates fetched in
\* Phase 2; the items handed to the ranking and the items ranked are the
\* filter's approved items, each once.
C12_EnrichmentKeepsCandidates ==
    /\ task.review = "done" => review_result.data = all_shows
    /\ task.trend = "done" => trend_result.data = all_shows
    /\ pc \in {"phase3", "phase4", "phase5", "phase6", "done"} =>
            all_shows = [k \in 1..Len(shows) |-> k]
    /\ task.analysis \in {"running", "done"} =>
            /\ Range(FlattenIds(analysis_input)) = Range(filter_result.data.approved)
            /\ Len(FlattenIds(analysis_input)) = Len(filter_result.data.approved)
    /\ task.analysis = "done" =>
            /\ Range(analysis_result.data.ranked_content)
                    = Range(filter_result.data.approved)
            /\ Len(analysis_result.data.ranked_content)
                    = Len(filter_result.data.approved)

\* two candidates went through both enrichment tasks, the filter removed one
C12_Witness ==
    /\ task.analysis = "done"
    /\ Len(review_result.data) = 2
    /\ Len(trend_result.data) = 2
    /\ Len(analysis_result.data.ranked_content) = 1

(***************************************************************************)
(* The filter under every ceiling: each label of the hierarchy, a label    *)
(* that is not in it, and criteria without the key; every content rating   *)
(* can be drawn.                                                           *)
(***************************************************************************)
FilterSeeds ==
    {[title |-> "Beta", genre |-> "sci-fi", rating |-> 80],
     [title |-> "Gamma", genre |-> "horror", rating |-> 60]}

CeilingChoices ==
    {[max_content_rating |-> c, exclude_genres |-> <<"horror">>,
      min_quality_score |-> 70, content_warnings_ok |-> TRUE] :
        c \in Range(rating_hierarchy) \cup {"NC-17"}}
    \cup {[exclude_genres |-> <<"horror">>, min_quality_score |-> 70,
           content_warnings_ok |-> TRUE]}

RatingDraws ==
    {[content_rating |-> r, content_warnings |-> <<"violence">>] :
        r \in Range(rating_hierarchy)}

FilterCatalogs == CatalogsUpTo(FilterSeeds, MaxShows)

InitFilter == InitWith(OnlyDemoProfile, OnlyDemoContext, CeilingChoices)

NextFilter ==
    NextWith(FilterCatalogs, OnlyCalmReview, OnlyOldRelease, RatingDraws)

SpecFilter == InitFilter /\ [][NextFilter]_vars

\* label r stands after label c in the hierarchy
RatedAbove(r, c) ==
    \E j, k \in 1..Len(rating_hierarchy) :
        j < k /\ rating_hierarchy[j] = c /\ rating_hierarchy[k] = r

\* the filter has just returned
FilterReturned == pc = "phase4" /\ task.filter = "done"

\* C13: under a ceiling of the hierarchy, an item whose content rating stands
\* above the ceiling is not approved and is in filtered_out, whatever its
\* other checks say; an item rated at or under the ceiling passes the rating
\* check.
C13_CeilingRejects ==
    (FilterReturned /\ "max_content_rating" \in DOMAIN filters
                    /\ filters.max_content_rating \in Range(rating_hierarchy)) =>
        \A i \in Range(trend_result.data) :
            IF RatedAbove(shows[i].content_rating, filters.max_content_rating)
            THEN /\ ~shows[i].filter_status.passes_rating
                 /\ ~shows[i].filter_status.approved
                 /\ i \in Range(filter_result.data.filtered_out)
                 /\ i \notin Range(filter_result.data.approved)
            ELSE shows[i].filter_status.passes_rating

\* an item rated R under a TV-14 ceiling passed the three other checks and
\* was filtered out, next to an item rated TV-14 that was approved
C13_Witness ==
    /\ FilterReturned
    /\ "max_content_rating" \in DOMAIN filters
    /\ filters.max_content_rating = "TV-14"
    /\ \E i \in Range(filter_result.data.filtered_out) :
        /\ shows[i].content_rating = "R"
        /\ shows[i].filter_status.passes_genre
        /\ shows[i].filter_status.passes_quality
        /\ shows[i].filter_status.passes_warnings
    /\ \E i \in Range(filter_result.data.approved) :
        shows[i].content_rating = "TV-14"

\* C14: with a max_content_rating that is not a label of the hierarchy the
\* filter does not return a result: it rejects the criteria.
C14_UnknownCeilingRejected ==
    ("max_content_rating" \in DOMAIN filters
        /\ filters.max_content_rating \notin Range(rating_hierarchy)) =>
            task.filter # "done"

\* the analysis has just returned
AnalysisReturned == pc = "phase5" /\ task.analysis = "done"

\* C15: ranked_content is in descending order of the ranking score, and two
\* items with the same score stand in the order they had in the flattening of
\* the engine's input.
C15_SortStable ==
    AnalysisReturned =>
        LET ranked == analysis_result.data.ranked_content
            input == FlattenIds(analysis_input)
        IN \A a, b \in 1..Len(ranked) :
            a < b =>
                /\ SortKey(shows[ranked[a]], "final_score") >= SortKey(shows[ranked[b]], "final_score")
                /\ SortKey(shows[ranked[a]], "final_score") = SortKey(shows[ranked[b]], "final_score") =>
                        PositionOf(input, ranked[a]) < PositionOf(input, ranked[b])

\* two items with the same score were ranked
C15_Witness ==
    /\ AnalysisReturned
    /\ Len(analysis_result.data.ranked_content) = 2
    /\ SortKey(shows[analysis_result.data.ranked_content[1]], "final_score")
            = SortKey(shows[analysis_result.data.ranked_content[2]], "final_score")

\* C16: two approved items with the same ranking score stand in
\* ranked_content in the order they had in the list fetched in Phase 2,
\* however the coordinator regrouped the approved items by platform.
C16_TieOrderIsFetchOrder ==
    AnalysisReturned =>
        LET ranked == analysis_result.data.ranked_content
        IN \A a, b \in 1..Len(ranked) :
            (a < b /\ SortKey(shows[ranked[a]], "final_score") = SortKey(shows[ranked[b]], "final_score")) =>
                PositionOf(all_shows, ranked[a]) < PositionOf(all_shows, ranked[b])

(***************************************************************************)
(* The review task over base ratings at and near the ends of the scale,    *)
(* with no jitter and with the jitters at the ends of their ranges.        *)
(***************************************************************************)
RatingSeeds ==
    {[title |-> "Zero", genre |-> "drama", rating |-> 0],
     [title |-> "Low", genre |-> "drama", rating |-> 1],
     [title |-> "Mid", genre |-> "sci-fi", rating |-> 50],
     [title |-> "Top", genre |-> "sci-fi", rating |-> 100]}

JitterDraws ==
    {CalmReview} \cup
    {[rt |-> r, mc |-> m, aud |-> 50, total |-> 1000] :
        r \in {-500, 500}, m \in {-800, 800}}

RatingCatalogs == CatalogsUpTo(RatingSeeds, MaxShows)

InitReview == InitWith(OnlyDemoProfile, OnlyDemoContext, OnlyDemoFilters)

NextReview ==
    NextWith(RatingCatalogs, JitterDraws, OnlyOldRelease, PlainFilterDraws)

SpecReview == InitReview /\ [][NextReview]_vars

\* C17: every trust score lies in [0, 10] and every stored rotten_tomatoes
\* and metacritic percentage in [0, 100]; an item reviewed with no jitter
\* (three equal primary scores) has trust score 10.
C17_TrustScoreRange ==
    /\ \A i \in DOMAIN shows :
        "trust_score" \in DOMAIN shows[i] =>
            /\ 0 <= shows[i].trust_score /\ shows[i].trust_score <= 100
            /\ 0 <= shows[i].review_data.rotten_tomatoes
            /\ shows[i].review_data.rotten_tomatoes <= 1000
            /\ 0 <= shows[i].review_data.metacritic
            /\ shows[i].review_data.metacritic <= 1000
    /\ (task.review = "done" /\ task.recommendation # "done") =>
        \A k \in 1..Len(all_shows) :
            (rnd.review[k].rt = 0 /\ rnd.review[k].mc = 0) =>
                shows[all_shows[k]].trust_score = 100

\* a 10.0 item whose raised percentages were cut to 100, a 0.0 item whose
\* lowered percentages were cut to 0, both with a trust score under 10
C17_Witness ==
    /\ task.review = "done"
    /\ task.recommendation # "done"
    /\ \E k \in 1..Len(all_shows) :
        /\ shows[all_shows[k]].rating = 100
        /\ rnd.review[k].rt = 500
        /\ shows[all_shows[k]].review_data.rotten_tomatoes = 1000
        /\ shows[all_shows[k]].trust_score < 100
    /\ \E k \in 1..Len(all_shows) :
        /\ shows[all_shows[k]].rating = 0
        /\ rnd.review[k].mc = -800
        /\ shows[all_shows[k]].review_data.metacritic = 0
        /\ shows[all_shows[k]].trust_score < 100

(***************************************************************************)
(* Ranking under several profiles and moods: five equally rated candidates *)
(* of different genres, permissive filter criteria.                        *)
(***************************************************************************)
GenreSeeds ==
    {[title |-> "Beta", genre |-> "sci-fi", rating |-> 80],
     [title |-> "Delta", genre |-> "action", rating |-> 80],
     [title |-> "Alpha", genre |-> "drama", rating |-> 80],
     [title |-> "Eps", genre |-> "comedy", rating |-> 80],
     [title |-> "Gamma", genre |-> "horror", rating |-> 80]}

\* Profiles, and a profile that names sci-fi as its only favourite and no
\* dislikes (the default dislikes apply)
RankProfiles == Profiles \cup {[favorite_genres |-> <<"sci-fi">>, min_rating |-> 80]}

\* one query per mood, queries matching several moods, a keyword inside a
\* longer word, an empty query and a context without a query
MoodContexts ==
    {DemoContext,
     [query |-> <<"c", "h", "i", "l", "l">>],
     [query |-> <<"d", "r", "a", "m", "a">>],
     [query |-> <<"f", "u", "n">>],
     [query |-> <<"n", "e", "w", "s">>],
     [query |-> <<"F", "U", "N", " ", "d", "r", "a", "m", "a">>],
     [query |-> <<"a", "c", "t", "i", "o", "n", " ", "u", "n", "w", "i", "n", "d", "s">>],
     [query |-> <<>>],
     [time_of_day |-> "night"]}

PermissiveFilters ==
    [max_content_rating |-> "TV-MA", exclude_genres |-> <<>>,
     min_quality_score |-> 0, content_warnings_ok |-> TRUE]

GenreCatalogs == CatalogsUpTo(GenreSeeds, MaxShows)

OnlyPermissiveFilters == {PermissiveFilters}

InitRank == InitWith(RankProfiles, MoodContexts, OnlyPermissiveFilters)

NextRank ==
    NextWith(GenreCatalogs, OnlyCalmReview, OnlyOldRelease, PlainFilterDraws)

SpecRank == InitRank /\ [][NextRank]_vars

\* the profile's genre lists, with the defaults of a profile that has none
FavoriteGenres == Range(Get(user_profile, "favorite_genres", <<"sci-fi", "drama">>))
DislikedGenres == Range(Get(user_profile, "disliked_genres", <<"horror">>))

\* C18: the weight applied to a ranked item's rating is 0.3 when its genre
\* is disliked (also when it is a favourite as well), 1.5 when it is a
\* favourite only, 1.0 when it is neither.
C18_GenreWeightPrecedence ==
    AnalysisReturned =>
        \A i \in Range(analysis_result.data.ranked_content) :
            shows[i].personalized_score =
                shows[i].rating *
                    (IF shows[i].genre \in DislikedGenres THEN 3
                     ELSE IF shows[i].genre \in FavoriteGenres THEN 15
                     ELSE 10)

\* drama is both a favourite and disliked: a drama item scored 0.3 x 8.0 next
\* to a comedy item, neither favourite nor disliked, scored 1.0 x 8.0
C18_Witness ==
    /\ AnalysisReturned
    /\ "drama" \in FavoriteGenres \cap DislikedGenres
    /\ \E i \in Range(analysis_result.data.ranked_content) :
        shows[i].genre = "drama" /\ shows[i].personalized_score = 240
    /\ \E i \in Range(analysis_result.data.ranked_content) :
        shows[i].genre = "comedy" /\ shows[i].personalized_score = 800

MoodOrder == <<"relaxed", "energetic", "thoughtful", "fun">>

\* a keyword of the k-th mood occurs in the lower-cased query
KeywordOccurs(k) ==
    \E i \in 1..Len(mood_indicators) :
        /\ mood_indicators[i].mood = MoodOrder[k]
        /\ \E j \in 1..Len(mood_indicators[i].keywords) :
            Contains(Lower(Get(context, "query", <<>>)), mood_indicators[i].keywords[j])

\* the mood task has returned and the coordinator still awaits Phase 1
MoodReturned == pc = "phase1" /\ task.mood = "done"

\* C20: the detected mood is the first of relaxed, energetic, thoughtful, fun
\* with a keyword occurring in the query, upper or lower case, and "neutral"
\* exactly when no keyword occurs; energy_level is "high" exactly when the
\* mood is "energetic".
C20_FirstMoodWins ==
    MoodReturned =>
        LET mood == mood_result.data.detected_mood
        IN /\ \A k \in 1..Len(MoodOrder) :
                mood = MoodOrder[k] <=>
                    (KeywordOccurs(k) /\ \A j \in 1..(k - 1) : ~KeywordOccurs(j))
           /\ mood = "neutral" <=> \A k \in 1..Len(MoodOrder) : ~KeywordOccurs(k)
           /\ mood \in Range(MoodOrder) \cup {"neutral"}
           /\ (mood_result.data.energy_level = "high") <=> (mood = "energetic")
           /\ mood_result.data.energy_level \in {"high", "moderate"}
           /\ context = [query |-> <<"F", "U", "N", " ", "d", "r", "a", "m", "a">>]
                => mood = "thoughtful"
           /\ context = DemoContext => mood = "energetic"
           /\ "query" \notin DOMAIN context => mood = "neutral"

\* the query "action unwinds" holds a keyword of energetic and, further on
\* and inside a longer word, one of relaxed: the mood is relaxed
C20_Witness ==
    /\ MoodReturned
    /\ KeywordOccurs(1)
    /\ KeywordOccurs(2)
    /\ mood_result.data.detected_mood = "relaxed"
    /\ mood_result.data.energy_level = "moderate"

\* the drawn list of warnings names no warning: it is empty or holds only
\* the label "none"
CarriesNoWarnings(content_warnings) ==
    \A k \in 1..Len(content_warnings) : content_warnings[k] = "none"

\* C21: for every item the filter checked, empty warning lists included, the
\* warnings check is true exactly when content warnings are acceptable or
\* the item carries no warnings.
C21_WarningsCheck ==
    FilterReturned =>
        \A i \in Range(trend_result.data) :
            shows[i].filter_status.passes_warnings <=>
                (Get(filters, "content_warnings_ok", TRUE)
                    \/ CarriesNoWarnings(shows[i].content_warnings))

\* C22: the error result of a failed run names the stage that failed: one of
\* its fields holds the failing agent's key or name.
C22_ErrorNamesStage ==
    pc = "failed" =>
        \E f \in DOMAIN result : result[f] \in {exc.agent, AgentName[exc.agent]}


(***************************************************************************)
(* AnalysisAgent.execute and RecommendationAgent.execute called on their   *)
(* own, as their signatures allow: preferences and mood are optional, and  *)
(* no review or trend list is passed to the recommendation stage.          *)
(***************************************************************************)
DirectSeeds ==
    {[title |-> "Beta", genre |-> "sci-fi", rating |-> 80, trust_score |-> 90],
     [title |-> "Alpha", genre |-> "drama", rating |-> 88, trust_score |-> 75],
     [title |-> "Eps", genre |-> "comedy", rating |-> 92],
     [title |-> "Gamma", genre |-> "horror", rating |-> 95, trust_score |-> 85]}

DirectCatalogs == CatalogsUpTo(DirectSeeds, MaxShows)

\* preferences=None, or the result of the personalization stage
DirectPreferences == {<<>>} \cup {Preferences(p) : p \in Profiles}

\* mood=None, or the result of the mood stage
DirectMoods == {<<>>} \cup {MoodProfile(c) : c \in MoodContexts}

InitDirect ==
    /\ user_profile = DemoProfile
    /\ context = DemoContext
    /\ user_query = DemoContext.query
    /\ filters = DemoFilters
    /\ pc = "direct"
    /\ task = [a \in Agents |-> IF a = "analysis" THEN "running" ELSE "pending"]
    /\ exc = NoExc
    /\ \E catalog \in DirectCatalogs :
        /\ shows = CatalogHeap(catalog)
        /\ research_result = Success("research", CatalogRefs(catalog))
        /\ analysis_input = CatalogRefs(catalog)
    /\ \E preferences \in DirectPreferences :
        personalization_result = Success("personalization", preferences)
    /\ \E mood \in DirectMoods : mood_result = Success("mood", mood)
    /\ all_shows = <<>>
    /\ review_result = Success("review", <<>>)
    /\ trend_result = Success("trend", <<>>)
    /\ filter_result = NotYet
    /\ analysis_result = NotYet
    /\ recommendation_result = NotYet
    /\ rnd = [review |-> <<>>, trend |-> <<>>, filter |-> <<>>]
    /\ result = NotYet

\* the caller hands the analysis result to RecommendationAgent.execute
CallRecommendation ==
    /\ pc = "direct"
    /\ task.analysis = "done"
    /\ task.recommendation = "pending"
    /\ task' = Started("recommendation")
    /\ UNCHANGED <<inputs, pc, exc, shows, research_result,
                   personalization_result, mood_result, all_shows,
                   review_result, trend_result, filter_result, analysis_input,
                   analysis_result, recommendation_result, rnd, result>>

NextDirect ==
    \/ AnalysisExecute
    \/ CallRecommendation
    \/ RecommendationExecute

SpecDirect == InitDirect /\ [][NextDirect]_vars

\* the recommendation stage has returned
RecommendationReturned == task.recommendation = "done"

\* the bands of the confidence label; score in thousandths, trust in tenths
ConfidenceBand(score, trust) ==
    IF score > 9000 /\ trust > 80 THEN "Very High"
    ELSE IF score > 8500 /\ trust > 70 THEN "High"
    ELSE IF score > 8000 THEN "Medium"
    ELSE "Low"

\* C23: each recommendation's confidence label is the band of the score it
\* reports as final_score (final_score, else personalized_score, else the
\* base rating) and of the item's trust score (7.0 when it has none).
C23_ConfidenceFromReportedScore ==
    RecommendationReturned =>
        LET ranked == analysis_result.data.ranked_content
            recs == recommendation_result.data.recommendations
        IN \A k \in DOMAIN recs :
            recs[k].confidence =
                ConfidenceBand(recs[k].final_score,
                               Get(shows[ranked[k]], "trust_score", 70))


(***************************************************************************)
(* Termination.  Runs of execute whose query the console can or cannot     *)
(* encode, under the scheduling of the asyncio event loop: a coroutine     *)
(* that can take its next step is resumed (the coordinator after its       *)
(* awaited tasks have ended, a task after its sleep), and every stage task *)
(* ends, by returning or by raising.                                       *)
(***************************************************************************)
LiveContexts ==
    {DemoContext, [query |-> <<LoneSurrogate, " ", "f", "u", "n">>]}

InitLive == InitWith(OnlyDemoProfile, LiveContexts, OnlyDemoFilters)

NextLive ==
    \/ NextWith(CandidateCatalogs, OnlyCalmReview, OnlyOldRelease, FilterDraws)
    \/ HeaderLogRaises

\* the steps of the coordinator's own coroutine
CoordinatorStep ==
    \/ StartPhase1 \/ StartPhase2 \/ StartPhase3 \/ StartPhase4
    \/ StartPhase5 \/ StartPhase6 \/ Finish \/ HandleException
    \/ HeaderLogRaises

LiveFairness ==
    /\ WF_vars(CoordinatorStep)
    /\ WF_vars(PersonalizationExecute \/ Raise("personalization"))
    /\ WF_vars(MoodExecute \/ Raise("mood"))
    /\ WF_vars(ResearchExecute(CandidateCatalogs) \/ Raise("research"))
    /\ WF_vars(ReviewExecute(OnlyCalmReview) \/ Raise("review"))
    /\ WF_vars(TrendExecute(OnlyOldRelease) \/ Raise("trend"))
    /\ WF_vars(FilterExecute(FilterDraws) \/ Raise("filter"))
    /\ WF_vars(AnalysisExecute \/ Raise("analysis"))
    /\ WF_vars(RecommendationExecute \/ Raise("recommendation"))

SpecLive == InitLive /\ [][NextLive]_vars /\ LiveFairness

\* the exception of a log call ahead of the try block has left execute
Escaped == pc = "raised"

\* Every run ends: it returns a result, or an exception leaves execute.
EndsOrEscapes == <>(Returned_ \/ Escaped)

\* C24: every run of execute ends in Done or Failed with a result returned
\* and never by an exception that reaches the caller.
C24_NoExceptionEscapes == ~Escaped


\* the analysis stage has returned and its items have not been touched since
AnalysisDone == task.analysis = "done" /\ task.recommendation = "pending"

\* the boost of the table of the claim, in tenths: 1.0 for a genre the mood
\* does not list and for the moods without a table
TableBoost(detected_mood, genre) ==
    CASE detected_mood = "energetic" /\ genre = "action" -> 12
      [] detected_mood = "energetic" /\ genre = "sci-fi" -> 11
      [] detected_mood = "relaxed" /\ genre = "comedy" -> 12
      [] detected_mood = "relaxed" /\ genre = "animation" -> 11
      [] detected_mood = "thoughtful" /\ genre = "drama" -> 12
      [] detected_mood = "thoughtful" /\ genre = "documentary" -> 11
      [] OTHER -> 10

\* the key the claim ranks by, in thousandths
RankingKey(show, preferences, mood) ==
    IF Given(mood) THEN show.final_score
    ELSE IF Given(preferences) THEN show.personalized_score * 10
    ELSE show.rating * 100

\* C25: when preferences are applied personalized_score is rating times the
\* genre weight; when a mood profile is applied final_score is the
\* personalized score (the rating when no preferences were applied) times the
\* mood boost; ranked_content is non-increasing in final_score when a mood
\* profile was applied, else in personalized_score when preferences were
\* applied, else in the base rating.
C25_ScoresAndRankingKey ==
    AnalysisDone =>
        LET preferences == personalization_result.data
            mood == mood_result.data
            ranked == analysis_result.data.ranked_content
        IN /\ \A i \in Range(ranked) :
                /\ Given(preferences) =>
                    shows[i].personalized_score =
                        shows[i].rating
                            * Get(preferences.genre_weights, shows[i].genre, 10)
                /\ Given(mood) =>
                    shows[i].final_score =
                        (IF Given(preferences) THEN shows[i].personalized_score
                         ELSE shows[i].rating * 10)
                            * TableBoost(mood.detected_mood, shows[i].genre)
                /\ ~Given(preferences) => "personalized_score" \notin DOMAIN shows[i]
                /\ ~Given(mood) => "final_score" \notin DOMAIN shows[i]
           /\ \A a, b \in 1..Len(ranked) :
                a < b => RankingKey(shows[ranked[a]], preferences, mood)
                            >= RankingKey(shows[ranked[b]], preferences, mood)

\* preferences without a mood profile put a favourite ahead of a better
\* rated item
C25_Witness ==
    /\ AnalysisDone
    /\ Given(personalization_result.data)
    /\ ~Given(mood_result.data)
    /\ Len(analysis_result.data.ranked_content) = 2
    /\ shows[analysis_result.data.ranked_content[1]].rating
            < shows[analysis_result.data.ranked_content[2]].rating


\* the filter task has been handed the trend task's list
FilterCalled == pc = "phase4" /\ task.filter \in {"running", "done"}

\* C26: every item of the list the filter is given in Phase 4, the trend
\* task's list, carries the review fields written by the review task as
\* well as the trend fields.
C26_FilterInputFullyEnriched ==
    FilterCalled =>
        \A k \in 1..Len(trend_result.data) :
            LET item == shows[trend_result.data[k]]
            IN /\ ReviewKeys \cup TrendKeys \subseteq DOMAIN item
               /\ Restrict(item, ReviewKeys) = ReviewFields(item, rnd.review[k])
               /\ Restrict(item, TrendKeys) = TrendFields(item, rnd.trend[k])

\* the filter is about to check two items
C26_Witness ==
    /\ pc = "phase4"
    /\ task.filter = "running"
    /\ Len(trend_result.data) = 2
    /\ "trust_score" \in DOMAIN shows[trend_result.data[2]]


\* the fields the ranking rests on
RankedKeys ==
    {"platform", "genre", "rating", "filter_status", "personalized_score",
     "final_score"}

\* C27: the merge of Phase 6 leaves the platform, genre, rating, filter
\* verdict, personalized_score and final_score of every ranked item as the
\* analysis stage left them, also when two candidates share a title.
C27_MergeKeepsRankedFields ==
    [][(task.recommendation = "running" /\ task'.recommendation = "done") =>
          \A i \in Range(analysis_result.data.ranked_content) :
              Restrict(shows'[i], RankedKeys) = Restrict(shows[i], RankedKeys)]_vars


\* recommendation rec shows the title, platform and genre of item
Describes(rec, item) ==
    /\ rec.title = item.title
    /\ rec.platform = item.platform
    /\ rec.genre = item.genre

\* C28: in a success result every recommendation shows the title, platform
\* and genre of an item of the filter's approved list whose verdict is
\* approved, and none shows those of an item of filtered_out.
C28_RecommendationsAreApproved ==
    (pc = "done" /\ result.status = "success") =>
        \A k \in DOMAIN Recs :
            /\ \E i \in Range(filter_result.data.approved) :
                    /\ Describes(Recs[k], shows[i])
                    /\ shows[i].filter_status.approved
            /\ \A j \in Range(filter_result.data.filtered_out) :
                    ~Describes(Recs[k], shows[j])


\* the provider listed no title twice on one platform
FetchedPairsDistinct ==
    \A g \in 1..Len(research_result.data) :
        \A a, b \in 1..Len(research_result.data[g].shows) :
            a # b => shows[research_result.data[g].shows[a]].title
                        # shows[research_result.data[g].shows[b]].title

\* C29: the recommendations of a success result have the ranks 1..k in
\* order with k at most 5, no title-and-platform pair occurs twice among
\* them (the provider having listed none twice), and the final_score they
\* report is non-increasing down the list.
C29_RanksPairsAndScores ==
    (pc = "done" /\ result.status = "success" /\ FetchedPairsDistinct) =>
        /\ Len(Recs) <= 5
        /\ \A k \in DOMAIN Recs : Recs[k].rank = k
        /\ \A a, b \in DOMAIN Recs :
            a < b =>
                /\ ~(Recs[a].title = Recs[b].title
                     /\ Recs[a].platform = Recs[b].platform)
                /\ Recs[a].final_score >= Recs[b].final_score


\* the three primary scores of the k-th reviewed item, in hundredths
PrimaryScores(k) ==
    LET imdb_score == Get(shows[all_shows[k]], "rating", 80)
    IN <<imdb_score * 100, imdb_score * 100 + rnd.review[k].rt,
         imdb_score * 100 + rnd.review[k].mc>>

\* C30: for every reviewed item the consensus is "strong" iff the variance
\* of its three primary scores is below 50; then the trust score before
\* rounding, 10 - variance / 20, is above 7.5 (and the stored one at least
\* 7.5); when the consensus is "mixed" the stored trust score is at most 7.5.
C30_ConsensusAgreesWithTrust ==
    (task.review = "done" /\ task.recommendation # "done") =>
        \A k \in 1..Len(all_shows) :
            LET item == shows[all_shows[k]]
                variance9 == Variance9(PrimaryScores(k))
            IN /\ item.review_consensus \in {"strong", "mixed"}
               /\ item.review_consensus = "strong" <=> variance9 < 9 * 50 * 10000
               /\ item.review_consensus = "strong" =>
                    /\ 20 * 10 * 90000 - variance9 > 20 * 75 * 9000
                    /\ item.trust_score >= 75
               /\ item.review_consensus = "mixed" => item.trust_score <= 75

\* an item whose three primary scores differ, with a trust score under 10
C30_Witness ==
    /\ task.review = "done" /\ task.recommendation # "done"
    /\ \E k \in 1..Len(all_shows) :
        /\ rnd.review[k].rt = 500 /\ rnd.review[k].mc = -800
        /\ shows[all_shows[k]].review_consensus = "strong"
        /\ shows[all_shows[k]].trust_score < 90

=============================================================================
